---- MODULE Spec2Model ----
(***************************************************************************)
(* A model of the GrimSwap relayer: the request validator                  *)
(* (src/src/middleware/validator.ts), the relay orchestrator               *)
(* (src/src/services/relayService.ts), the POST /relay routes              *)
(* (src/src/utils/constants.ts, lines 482-618), the GET /status route      *)
(* (src/unnamed/part_003), the rate limiter                                *)
(* (src/src/middleware/rateLimiter.ts) and the GET /fee/quote route        *)
(* (src/src/routes/fee.ts).                                                *)
(*                                                                         *)
(* Strings are sequences of one-character strings, so that BigInt(string)  *)
(* is computed as ECMAScript computes it.  An error message is the set of  *)
(* the marker substrings it contains: String.prototype.includes(m) is      *)
(* membership of m, and concatenation is union.                            *)
(***************************************************************************)
EXTENDS Integers, Sequences, FiniteSets, TLC

(***************************************************************************)
(* JSON values of a request body.                                          *)
(***************************************************************************)
JStr(s) == [t |-> "str", v |-> s]
JNum(n) == [t |-> "num", v |-> <<n>>]
JArr(items) == [t |-> "arr", v |-> items]
JNull == [t |-> "null", v |-> <<>>]
JUndef == [t |-> "undef", v |-> <<>>]
JBool(b) == [t |-> "bool", v |-> <<b>>]

\* array[i] with a 0-based index, undefined past the end
JIndex(arr, i) == IF arr.t = "arr" /\ i + 1 <= Len(arr.v) THEN arr.v[i + 1] ELSE JUndef

DecDigits == {"0", "1", "2", "3", "4", "5", "6", "7", "8", "9"}
HexDigits == DecDigits \cup {"a", "b", "c", "d", "e", "f"}
OctDigits == {"0", "1", "2", "3", "4", "5", "6", "7"}
BinDigits == {"0", "1"}

DigitVal(c) ==
    CASE c = "0" -> 0 [] c = "1" -> 1 [] c = "2" -> 2 [] c = "3" -> 3
      [] c = "4" -> 4 [] c = "5" -> 5 [] c = "6" -> 6 [] c = "7" -> 7
      [] c = "8" -> 8 [] c = "9" -> 9 [] c = "a" -> 10 [] c = "b" -> 11
      [] c = "c" -> 12 [] c = "d" -> 13 [] c = "e" -> 14 [] c = "f" -> 15
      [] OTHER -> 0

AllIn(s, digits) == \A i \in 1..Len(s) : s[i] \in digits

RECURSIVE RadixVal(_, _)
RadixVal(s, radix) ==
    IF s = <<>> THEN 0
    ELSE RadixVal(SubSeq(s, 1, Len(s) - 1), radix) * radix + DigitVal(s[Len(s)])

RECURSIVE TrimLeft(_)
TrimLeft(s) == IF s # <<>> /\ s[1] = " " THEN TrimLeft(Tail(s)) ELSE s

RECURSIVE TrimRight(_)
TrimRight(s) ==
    IF s # <<>> /\ s[Len(s)] = " " THEN TrimRight(SubSeq(s, 1, Len(s) - 1)) ELSE s

Trim(s) == TrimRight(TrimLeft(s))

Thrown == [ok |-> FALSE, val |-> 0]
Parsed(n) == [ok |-> TRUE, val |-> n]

\* ECMAScript StringToBigInt: white space is trimmed, the empty string is 0n,
\* a decimal literal may carry a sign, 0x/0o/0b literals may not.
StringToBigInt(s) ==
    LET t == Trim(s) IN
    IF t = <<>> THEN Parsed(0)
    ELSE IF t[1] \in {"+", "-"}
    THEN IF Len(t) > 1 /\ AllIn(Tail(t), DecDigits)
         THEN Parsed(IF t[1] = "-" THEN 0 - RadixVal(Tail(t), 10) ELSE RadixVal(Tail(t), 10))
         ELSE Thrown
    ELSE IF Len(t) > 2 /\ t[1] = "0" /\ t[2] \in {"x", "o", "b"}
    THEN LET digits == SubSeq(t, 3, Len(t))
             radix == CASE t[2] = "x" -> 16 [] t[2] = "o" -> 8 [] OTHER -> 2
             allowed == CASE t[2] = "x" -> HexDigits [] t[2] = "o" -> OctDigits
                          [] OTHER -> BinDigits
         IN IF AllIn(digits, allowed) THEN Parsed(RadixVal(digits, radix)) ELSE Thrown
    ELSE IF AllIn(t, DecDigits) THEN Parsed(RadixVal(t, 10))
    ELSE Thrown

\* BigInt(value): a string is parsed, an integer number converts, null and
\* undefined throw a TypeError, an array converts through its string form
\* ("" for [], the element's for [x], and a text with commas otherwise).
RECURSIVE ToBigInt(_)
ToBigInt(j) ==
    CASE j.t = "str" -> StringToBigInt(j.v)
      [] j.t = "num" -> Parsed(j.v[1])
      [] j.t = "bool" -> Parsed(IF j.v[1] THEN 1 ELSE 0)
      [] j.t = "arr" ->
            IF Len(j.v) = 0 THEN Parsed(0)
            ELSE IF Len(j.v) > 1 THEN Thrown
            ELSE IF j.v[1].t \in {"null", "undef"} THEN Parsed(0)
            ELSE ToBigInt(j.v[1])
      [] OTHER -> Thrown

\* JavaScript truthiness of a value
Truthy(j) ==
    CASE j.t = "str" -> j.v # <<>>
      [] j.t = "num" -> j.v[1] # 0
      [] j.t = "bool" -> j.v[1]
      [] j.t = "arr" -> TRUE
      [] OTHER -> FALSE
MinSignals == 6
HOOK_SIGNALS == 8

(***************************************************************************)
(* validator.ts                                                            *)
(***************************************************************************)
AddressLen == 40

\* /^0x[a-fA-F0-9]{40}$/.test(address); test() takes the string form of its
\* argument, which for a non-string here never matches.
isValidAddress(address) ==
    /\ address.t = "str"
    /\ Len(address.v) = AddressLen + 2
    /\ address.v[1] = "0"
    /\ address.v[2] = "x"
    /\ \A i \in 3..Len(address.v) : address.v[i] \in HexDigits \cup {"A", "B", "C", "D", "E", "F"}

IsArrayOfLength(j, n) == j.t = "arr" /\ Len(j.v) = n

Reject(msg, idx) == [next |-> FALSE, status |-> 400, error |-> msg, index |-> idx]
CallNext == [next |-> TRUE, status |-> 0, error |-> "", index |-> -1]

\* The first index the loop of lines 47-62 rejects, or -1.
SignalAccepted(e) == e.t = "str" /\ ToBigInt(e).ok

FirstBadSignal(ps) ==
    IF \A i \in 1..Len(ps.v) : SignalAccepted(ps.v[i]) THEN -1
    ELSE (CHOOSE i \in 1..Len(ps.v) :
            /\ ~SignalAccepted(ps.v[i])
            /\ \A k \in 1..(i - 1) : SignalAccepted(ps.v[k])) - 1

\* Lines 28-31: proof.b is an array of two entries.
ProofBShape(b) == IsArrayOfLength(b, 2)

validateRelayRequest(body) ==
    IF ~body.proofIsObject THEN Reject("Missing or invalid proof", -1)
    ELSE IF ~IsArrayOfLength(body.a, 2) THEN Reject("Invalid proof.a", -1)
    ELSE IF ~ProofBShape(body.b) THEN Reject("Invalid proof.b", -1)
    ELSE IF ~IsArrayOfLength(body.c, 2) THEN Reject("Invalid proof.c", -1)
    ELSE IF ~(body.publicSignals.t = "arr" /\ Len(body.publicSignals.v) >= MinSignals)
    THEN Reject("Invalid publicSignals: expected array with at least 6 elements", -1)
    ELSE IF FirstBadSignal(body.publicSignals) # -1
    THEN LET i == FirstBadSignal(body.publicSignals) IN
         IF body.publicSignals.v[i + 1].t # "str"
         THEN Reject("Invalid publicSignals[i]: expected string", i)
         ELSE Reject("Invalid publicSignals[i]: not a valid number", i)
    ELSE IF ~body.swapParamsIsObject THEN Reject("Missing or invalid swapParams", -1)
    ELSE IF ~body.poolKeyIsObject THEN Reject("Missing or invalid swapParams.poolKey", -1)
    ELSE IF ~isValidAddress(body.currency0) THEN Reject("Invalid currency0 address", -1)
    ELSE IF ~isValidAddress(body.currency1) THEN Reject("Invalid currency1 address", -1)
    ELSE IF ~isValidAddress(body.hooks) THEN Reject("Invalid hooks address", -1)
    ELSE IF ~(body.fee.t = "num" /\ body.fee.v[1] >= 0) THEN Reject("Invalid fee", -1)
    ELSE IF body.tickSpacing.t # "num" THEN Reject("Invalid tickSpacing", -1)
    ELSE IF body.zeroForOne.t # "bool" THEN Reject("Invalid zeroForOne", -1)
    ELSE IF ~Truthy(body.amountSpecified) THEN Reject("Missing amountSpecified", -1)
    ELSE IF ~Truthy(body.sqrtPriceLimitX96) THEN Reject("Missing sqrtPriceLimitX96", -1)
    ELSE CallNext

(***************************************************************************)
(* The request bodies the model draws from: a well-formed request, varied  *)
(* in recipient, fee and amount, and the same request with one field       *)
(* malformed.                                                              *)
(***************************************************************************)
Str1(c) == JStr(<<c>>)

ZeroAddress == JStr(<<"0", "x">> \o [i \in 1..AddressLen |-> "0"])
TokenAddress == JStr(<<"0", "x">> \o [i \in 1..AddressLen |-> "a"])
HookAddress == JStr(<<"0", "x">> \o [i \in 1..AddressLen |-> "C"])
ShortAddress == JStr(<<"0", "x", "1">>)

RootSignal == Str1("7")
NullifierSignal == Str1("9")

RecipientSignals == {Str1("5"), Str1("0")}
FeeSignals == {Str1("0"), JStr(<<"1", "0">>), JStr(<<"1", "0", "0", "0">>),
               JStr(<<"1", "0", "0", "1">>)}
AmountStrings == {Str1("1"), JStr(<<"-", "1">>),
                  JStr(<<"2", "5", "0", "1">>), JStr(<<"-", "2", "5", "0", "1">>),
                  JStr(<<"1", "0", "0", "0", "0">>), JStr(<<"-", "1", "0", "0", "0", "0">>)}

Pair(x, y) == JArr(<<Str1(x), Str1(y)>>)

BaseBody(recipient, fee, amount) ==
    [proofIsObject |-> TRUE,
     a |-> Pair("1", "2"),
     b |-> JArr(<<Pair("3", "4"), Pair("5", "6")>>),
     c |-> Pair("7", "8"),
     publicSignals |-> JArr(<<Str1("1"), Str1("1"), RootSignal, NullifierSignal,
                              recipient, Str1("3"), fee, Str1("2")>>),
     swapParamsIsObject |-> TRUE,
     poolKeyIsObject |-> TRUE,
     currency0 |-> ZeroAddress,
     currency1 |-> TokenAddress,
     hooks |-> HookAddress,
     fee |-> JNum(3000),
     tickSpacing |-> JNum(60),
     zeroForOne |-> JBool(TRUE),
     amountSpecified |-> amount,
     sqrtPriceLimitX96 |-> Str1("4")]

Canonical == BaseBody(Str1("5"), JStr(<<"1", "0">>), JStr(<<"1", "0", "0", "0", "0">>))

BaseBodies == {BaseBody(r, f, m) : r \in RecipientSignals, f \in FeeSignals, m \in AmountStrings}

\* values for proof.a and proof.c that are not pairs, or not numeric
TupleAlternatives ==
    {JUndef, Str1("1"), JArr(<<Str1("1")>>), JArr(<<Str1("1"), Str1("2"), Str1("3")>>),
     JArr(<<Str1("g"), Str1("2")>>)}

\* values for proof.b that are not 2x2
MatrixAlternatives ==
    {JUndef,
     JArr(<<Pair("3", "4")>>),
     JArr(<<Pair("3", "4"), Pair("5", "6"), Pair("7", "8")>>),
     JArr(<<Str1("3"), Str1("4")>>),
     JArr(<<JArr(<<Str1("3")>>), JArr(<<Str1("5")>>)>>),
     JArr(<<Pair("3", "4"), JArr(<<Str1("5"), Str1("6"), Str1("7")>>)>>),
     JArr(<<JNull, JNull>>)}

\* values for one entry of publicSignals
SignalAlternatives ==
    {JStr(<<>>), JStr(<<"0", "x", "1">>), JStr(<<"-", "1">>), JStr(<<" ", "1">>),
     Str1("g"), JStr(<<"1", ".", "5">>), JStr(<<"1", "e", "3">>), JNum(1), JNull}

MaxSignalCount == 9
SignalCounts == ((MinSignals - 1)..MaxSignalCount) \ {HOOK_SIGNALS}

Resize(ps, n) == JArr([i \in 1..n |-> IF i <= Len(ps.v) THEN ps.v[i] ELSE Str1("1")])

WithSignal(ps, i, e) == JArr([ps.v EXCEPT ![i] = e])

MalformedBodies ==
    {[Canonical EXCEPT !.proofIsObject = FALSE],
     [Canonical EXCEPT !.publicSignals = JUndef],
     [Canonical EXCEPT !.swapParamsIsObject = FALSE],
     [Canonical EXCEPT !.poolKeyIsObject = FALSE],
     [Canonical EXCEPT !.currency0 = ShortAddress],
     [Canonical EXCEPT !.currency0 = TokenAddress],
     [Canonical EXCEPT !.currency1 = JUndef],
     [Canonical EXCEPT !.hooks = ShortAddress],
     [Canonical EXCEPT !.fee = JNum(-1)],
     [Canonical EXCEPT !.fee = Str1("1")],
     [Canonical EXCEPT !.tickSpacing = Str1("1")],
     [Canonical EXCEPT !.zeroForOne = Str1("1")],
     [Canonical EXCEPT !.zeroForOne = JBool(FALSE)],
     [Canonical EXCEPT !.amountSpecified = JStr(<<>>)],
     [Canonical EXCEPT !.amountSpecified = JNum(0)],
     [Canonical EXCEPT !.amountSpecified = JNum(5)],
     [Canonical EXCEPT !.amountSpecified = Str1("g")],
     [Canonical EXCEPT !.sqrtPriceLimitX96 = JUndef],
     [Canonical EXCEPT !.sqrtPriceLimitX96 = Str1("g")]}
    \cup {[Canonical EXCEPT !.a = x] : x \in TupleAlternatives}
    \cup {[Canonical EXCEPT !.b = x] : x \in MatrixAlternatives}
    \cup {[Canonical EXCEPT !.c = x] : x \in TupleAlternatives}
    \cup {[Canonical EXCEPT !.publicSignals = Resize(Canonical.publicSignals, n)] :
            n \in SignalCounts}
    \cup {[Canonical EXCEPT !.publicSignals = WithSignal(Canonical.publicSignals, i, e)] :
            i \in 1..Len(Canonical.publicSignals.v), e \in SignalAlternatives}

Bodies == BaseBodies \cup MalformedBodies

(***************************************************************************)
(* Error messages and the route's catch block (constants.ts 538-586).      *)
(***************************************************************************)
RevertSignatures ==
    {"InvalidProof", "InvalidMerkleRoot", "NullifierAlreadyUsed", "InvalidRecipient",
     "InvalidRelayerFee", "InsufficientPoolBalance", "Unauthorized"}

\* "InvalidProof: Proof verification failed locally (snarkjs). The proof is
\* invalid." (405), the longest of the messages the source writes out in full.
FixedMessageLength == 80

\* An error: the category its message starts with, the markers the rest of
\* the message contains, and the number of characters of the message.
ErrOfLength(category, markers, length) ==
    [category |-> category, markers |-> markers, length |-> length]
Err(category, markers) == ErrOfLength(category, markers, FixedMessageLength)
NoError == ErrOfLength("none", {}, 0)

\* The lengths of the messages the chain client's errors may carry.
MessageLengths == {0, 20, 439, 440}

Includes(err, marker) == marker = err.category \/ marker \in err.markers

\* details is the number of characters of the "details" field, 0 when the
\* response has none.
Response(status, code) ==
    [sent |-> 1, status |-> status, code |-> code, error |-> "", index |-> -1,
     details |-> 0]
NoResponse ==
    [sent |-> 0, status |-> 0, code |-> "", error |-> "", index |-> -1, details |-> 0]

DETAILS_LIMIT == 500

\* Variant: the message is passed on whole.
SliceNothing(length) == length

\* errorMessage.slice(0, 500) (582)
Slice(length) == IF length <= DETAILS_LIMIT THEN length ELSE DETAILS_LIMIT

\* The catch block: the first marker found decides the response.
RouteError(err) ==
    IF Includes(err, "InvalidProof") THEN Response(400, "INVALID_PROOF")
    ELSE IF Includes(err, "NullifierAlreadyUsed") THEN Response(400, "NULLIFIER_USED")
    ELSE IF Includes(err, "InvalidMerkleRoot") THEN Response(400, "INVALID_ROOT")
    ELSE IF Includes(err, "insufficient funds") THEN Response(503, "RELAYER_UNDERFUNDED")
    ELSE [Response(500, "RELAY_FAILED") EXCEPT !.details = Slice(err.length)]

MAX_FEE_BPS == 1000
BPS_DENOMINATOR == 10000

\* BigInt division truncates toward zero.
BigIntDiv(x, y) == IF x >= 0 THEN x \div y ELSE 0 - ((0 - x) \div y)

\* Variant: the quotient rounded toward negative infinity.
RelayerFeeFloor(amount, feeBps) == (amount * feeBps) \div BPS_DENOMINATOR

\* (swapAmount * relayerFeeBps) / 10000n
RelayerFee(amount, feeBps) == BigIntDiv(amount * feeBps, BPS_DENOMINATOR)

Signal(body, i) == JIndex(body.publicSignals, i)

\* encodeHookData (210-228): every proof coordinate and every signal must
\* convert to a BigInt, the values must be unsigned, and the array of
\* signals must have exactly the 8 entries of uint256[8].
Uint(j) == ToBigInt(j).ok /\ ToBigInt(j).val >= 0

\* proof.b[i][k]: indexing null or undefined throws, anything else yields a
\* value or undefined
Indexable(j) == j.t \notin {"null", "undef"}

EncodeHookDataOk(body) ==
    /\ \A i \in 0..1 : Uint(JIndex(body.a, i)) /\ Uint(JIndex(body.c, i))
    /\ \A i \in 0..1 :
          /\ Indexable(JIndex(body.b, i))
          /\ \A k \in 0..1 : Uint(JIndex(JIndex(body.b, i), k))
    /\ \A i \in 1..Len(body.publicSignals.v) : Uint(body.publicSignals.v[i])
    /\ Len(body.publicSignals.v) = HOOK_SIGNALS

\* Lines 446-519, the synchronous code between the nullifier read and the gas
\* estimate: the error it throws, or NoError.
Prepare(body) ==
    IF ~(ToBigInt(Signal(body, 4)).ok /\ ToBigInt(Signal(body, 5)).ok
         /\ ToBigInt(Signal(body, 6)).ok)
    THEN Err("TypeError", {})
    ELSE IF ToBigInt(Signal(body, 4)).val = 0 THEN Err("InvalidRecipient", {})
    ELSE IF ToBigInt(Signal(body, 6)).val > MAX_FEE_BPS THEN Err("InvalidRelayerFee", {})
    ELSE IF ~EncodeHookDataOk(body) THEN Err("EncodingError", {})
    ELSE IF ~(ToBigInt(body.amountSpecified).ok /\ ToBigInt(body.sqrtPriceLimitX96).ok)
    THEN Err("SyntaxError", {})
    ELSE IF ToBigInt(body.sqrtPriceLimitX96).val < 0 THEN Err("EncodingError", {})
    ELSE NoError

(***************************************************************************)
(* State.                                                                  *)
(***************************************************************************)
VARIABLES
    route,           \* the route each request is for
    body,            \* req.body of each request
    pc,              \* the await each request is at
    loc,             \* the locals of submitPrivateSwap
    thrown,          \* the error submitPrivateSwap threw
    result,          \* the RelayResult it returned
    estimate,        \* the EstimateResult estimateRelay returned
    response,        \* the HTTP response
    chainLog,        \* the chain-client calls, in order
    knownRoots,      \* GrimPool.isKnownRoot
    nullifierHashes, \* GrimPool.nullifierHashes
    relayerIsOwner,  \* GrimPool.owner() = the relayer account
    verifierLoaded,  \* groth16 and verificationKey are set (initSnarkjs)
    ENABLE_STEALTH_FUNDING,
    pendingCount,    \* the relayer account's transaction count, pending included
    submitted,       \* the transactions the relayer account signed and sent
    txHash,          \* req.params.txHash of the GET /status request
    txState,         \* what the chain has for that hash
    statusPc,        \* the await the GET /status request is at
    statusResponse,  \* its HTTP response
    statusCalls,     \* the chain-client calls it made, in order
    now,             \* the time, in seconds
    store,           \* the rate limiter's record for each key
    served,          \* what rateLimiterMiddleware did with each IP's requests
    query,           \* req.query.amount of the GET /fee/quote request
    quotePc,         \* the await the GET /fee/quote request is at
    quoteCalls,      \* the chain-client calls it made, in order
    quoteResponse    \* its HTTP response

statusVars == <<txHash, txState, statusPc, statusResponse, statusCalls>>
rateVars == <<now, store, served>>
quoteVars == <<query, quotePc, quoteCalls, quoteResponse>>

vars == <<route, body, pc, loc, thrown, result, estimate, response, chainLog, knownRoots,
          nullifierHashes, relayerIsOwner, verifierLoaded, ENABLE_STEALTH_FUNDING,
          pendingCount, submitted, statusVars, rateVars, quoteVars>>

RequestIds == {"r1", "r2"}
Routes == {"relay", "estimate"}

WriteOps == {"addKnownRoot", "swap", "funding"}

NoLocals ==
    [isLocallyValid |-> "none", isRootKnown |-> "none", canAddRoot |-> "none",
     added |-> "none", isNullifierUsed |-> "none", estimate |-> "none",
     estimateError |-> {}, estimateLength |-> 0, simulation |-> "none", callError |-> {}, gasEstimate |-> 0,
     gasLimit |-> 0, nonce |-> -1, existingBalance |-> -1,
     receipt |-> "none", balance |-> "none", fundingReceipt |-> "none"]

NoResult == [returned |-> FALSE, txHash |-> 0, relayerFee |-> 0, fundingTxHash |-> 0]
NoEstimate == [returned |-> FALSE, gas |-> 0, fee |-> 0, relayerFee |-> 0, totalCost |-> 0]

Root(r) == ToBigInt(Signal(body[r], 2)).val
Nullifier(r) == ToBigInt(Signal(body[r], 3)).val

Logged(r, op, o) == Append(chainLog, [req |-> r, op |-> op, out |-> o])

\* The calls of one kind a request made
Calls(r, ops) == {i \in 1..Len(chainLog) : chainLog[i].req = r /\ chainLog[i].op \in ops}

\* RELAYER_CONFIG.STEALTH_FUNDING_WEI, scaled down: only its order with the
\* balance read matters.
STEALTH_FUNDING_WEI == 5

ChainRoots == {7}
ChainNullifiers == {9}

(***************************************************************************)
(* GET /status/:txHash (src/unnamed/part_003, lines 25-63).                *)
(***************************************************************************)
HashLen == 64

UpperHexDigits == {"A", "B", "C", "D", "E", "F"}

\* Variant: only the prefix and the alphabet are tested, not the length.
IsPrefixedHex(hash) ==
    /\ Len(hash) >= 2
    /\ hash[1] = "0"
    /\ hash[2] = "x"
    /\ \A i \in 3..Len(hash) : hash[i] \in HexDigits \cup UpperHexDigits

\* /^0x[a-fA-F0-9]{64}$/.test(txHash) (28)
IsTxHash(hash) ==
    /\ Len(hash) = HashLen + 2
    /\ hash[1] = "0"
    /\ hash[2] = "x"
    /\ \A i \in 3..Len(hash) : hash[i] \in HexDigits \cup UpperHexDigits

\* "0x" and n times the character c
HashOf(c, n) == <<"0", "x">> \o [i \in 1..n |-> c]

MaxHashLen == HashLen + 1

TxHashes ==
    {HashOf(c, n) : c \in {"a", "F", "7", "g", " "}, n \in {0, HashLen - 1, HashLen, MaxHashLen}}
    \cup {[i \in 1..(HashLen + 2) |-> "a"],
          <<"0", "X">> \o [i \in 1..HashLen |-> "a"],
          HashOf("a", HashLen - 1) \o <<"g">>,
          <<"x", "0">> \o [i \in 1..HashLen |-> "a"],
          HashOf("a", HashLen) \o <<"\n">>,
          <<>>}

\* What the chain has for a hash: a mined transaction that succeeded or
\* reverted, a pending one, or nothing.
TxStates == {"success", "reverted", "pending", "unknown"}

NoStatusResponse == [sent |-> 0, status |-> 0, body |-> "", nonce |-> -1]
StatusAnswer(status, text) == [sent |-> 1, status |-> status, body |-> text, nonce |-> -1]

\* The nonce of the pending transaction (tx.nonce)
PendingNonce == 3

\* No GET /status request has arrived.
StatusIdle ==
    /\ txHash = HashOf("a", HashLen)
    /\ txState = "unknown"
    /\ statusPc = "absent"
    /\ statusResponse = NoStatusResponse
    /\ statusCalls = <<>>

(***************************************************************************)
(* rateLimiterMiddleware (src/src/middleware/rateLimiter.ts), applied to    *)
(* every request before the routes (src/src/index.ts, line 58).            *)
(***************************************************************************)
REQUESTS_PER_MINUTE == 10
DURATION == 60
BLOCK_DURATION == 60

Ips == {"a", "b"}

\* The moments at which requests arrive, in seconds.
Moments == {0, DURATION - 1, DURATION, 2 * DURATION - 1}

NoRecord == [consumedPoints |-> 0, expiresAt |-> 0, window |-> 0]

\* No request has arrived.
RateIdle ==
    /\ now = 0
    /\ store = [ip \in Ips |-> NoRecord]
    /\ served = [ip \in Ips |-> <<>>]

\* No response of GET /fee/quote: the numbers of a quote are 0.
NoQuoteResponse ==
    [sent |-> 0, status |-> 0, error |-> "", relayerFee |-> 0, gasCostWei |-> 0,
     totalCost |-> 0, netAmount |-> 0, netAmountPercent |-> 0]

\* No GET /fee/quote request has arrived.
QuoteIdle ==
    /\ query = JUndef
    /\ quotePc = "absent"
    /\ quoteCalls = <<>>
    /\ quoteResponse = NoQuoteResponse

Init ==
    /\ StatusIdle
    /\ RateIdle
    /\ QuoteIdle
    /\ \E b \in Bodies : body = [r \in RequestIds |-> IF r = "r1" THEN b ELSE Canonical]
    /\ \E p \in Routes : route = [r \in RequestIds |-> IF r = "r1" THEN p ELSE "relay"]
    /\ pc = [r \in RequestIds |-> IF r = "r1" THEN "validate" ELSE "absent"]
    /\ loc = [r \in RequestIds |-> NoLocals]
    /\ thrown = [r \in RequestIds |-> NoError]
    /\ result = [r \in RequestIds |-> NoResult]
    /\ estimate = [r \in RequestIds |-> NoEstimate]
    /\ response = [r \in RequestIds |-> NoResponse]
    /\ chainLog = <<>>
    /\ pendingCount = 0
    /\ submitted = <<>>
    /\ knownRoots \in SUBSET ChainRoots
    /\ nullifierHashes \in SUBSET ChainNullifiers
    /\ relayerIsOwner \in BOOLEAN
    /\ verifierLoaded \in BOOLEAN
    /\ ENABLE_STEALTH_FUNDING \in BOOLEAN

\* Variant: an error that follows a sent swap leads to a second submission.
FailThenResubmit(r, err, locals, log) ==
    /\ pc' = [pc EXCEPT ![r] =
           IF Cardinality({i \in 1..Len(log) : log[i].req = r /\ log[i].op = "swap"}) = 1
              /\ \E i \in 1..Len(log) :
                    log[i].req = r /\ log[i].op = "swap" /\ log[i].out = "sent"
           THEN "sendSwap" ELSE "done"]
    /\ thrown' = [thrown EXCEPT ![r] = err]
    /\ response' = [response EXCEPT ![r] = RouteError(err)]
    /\ loc' = [loc EXCEPT ![r] = locals]
    /\ chainLog' = log
    /\ UNCHANGED <<result, estimate>>

\* The route's catch block answers the error submitPrivateSwap threw.
Fail(r, err, locals, log) ==
    /\ thrown' = [thrown EXCEPT ![r] = err]
    /\ response' = [response EXCEPT ![r] = RouteError(err)]
    /\ pc' = [pc EXCEPT ![r] = "done"]
    /\ loc' = [loc EXCEPT ![r] = locals]
    /\ chainLog' = log
    /\ UNCHANGED <<result, estimate>>

\* The request goes on to its next await.
Goto(r, next, locals, log) ==
    /\ pc' = [pc EXCEPT ![r] = next]
    /\ loc' = [loc EXCEPT ![r] = locals]
    /\ chainLog' = log
    /\ UNCHANGED <<thrown, result, estimate, response>>

\* What no step of a relay or estimate request changes: the requests, the
\* configuration, and the state of the other routes.
Config == <<route, body, relayerIsOwner, verifierLoaded, ENABLE_STEALTH_FUNDING, statusVars,
            rateVars, quoteVars>>
Chain == <<knownRoots, nullifierHashes>>
Account == <<pendingCount, submitted>>

\* estimateRelay (623-655), the synchronous code before the gas estimate: the
\* error it throws, or NoError.
PrepareEstimate(b) ==
    IF ~EncodeHookDataOk(b) THEN Err("EncodingError", {})
    ELSE IF ~(ToBigInt(b.amountSpecified).ok /\ ToBigInt(b.sqrtPriceLimitX96).ok)
    THEN Err("SyntaxError", {})
    ELSE IF ToBigInt(b.sqrtPriceLimitX96).val < 0 THEN Err("EncodingError", {})
    ELSE NoError

\* The catch block of POST /relay/estimate (611-617).
FailEstimate(r, err, log) ==
    /\ thrown' = [thrown EXCEPT ![r] = err]
    /\ response' = [response EXCEPT ![r] =
           [Response(500, "") EXCEPT !.error = "Failed to estimate transaction"]]
    /\ pc' = [pc EXCEPT ![r] = "done"]
    /\ chainLog' = log
    /\ UNCHANGED <<loc, result, estimate>>

\* Variant: both routes submit.
HandlerAlwaysSubmits(path) == "submitPrivateSwap"

\* The service method each route's handler calls (constants.ts 511, 598).
Handler(path) == IF path = "relay" THEN "submitPrivateSwap" ELSE "estimateRelay"

\* validateRelayRequest, then (on next()) the route handler up to its first
\* await: POST /relay calls submitPrivateSwap, POST /relay/estimate calls
\* estimateRelay.
Validate(r) ==
    /\ pc[r] = "validate"
    /\ \E v \in {validateRelayRequest(body[r])} :
       IF ~v.next
       THEN /\ pc' = [pc EXCEPT ![r] = "done"]
            /\ response' = [response EXCEPT ![r] =
                   [sent |-> 1, status |-> v.status, code |-> "", error |-> v.error,
                    index |-> v.index, details |-> 0]]
            /\ UNCHANGED <<loc, thrown, result, estimate, chainLog>>
       ELSE IF Handler(route[r]) = "submitPrivateSwap"
       THEN Goto(r, "verifyProofLocally", loc[r], chainLog)
       ELSE IF PrepareEstimate(body[r]) # NoError
       THEN FailEstimate(r, PrepareEstimate(body[r]), chainLog)
       ELSE Goto(r, "estimateRelayGas", loc[r], chainLog)
    /\ UNCHANGED <<Chain, Config, Account>>

(***************************************************************************)
(* submitPrivateSwap, one action per awaited call: the call's outcome and  *)
(* the synchronous code that follows it, up to the next await.             *)
(***************************************************************************)

\* Variant: a verifier that is not loaded rejects.
VerifyOutcomesLoadedOnly(b) ==
    IF ~verifierLoaded THEN {"invalid"}
    ELSE IF ~(Indexable(JIndex(b.b, 0)) /\ Indexable(JIndex(b.b, 1))) THEN {"threw"}
    ELSE {"valid", "invalid", "threw"}

\* verifyProofLocally (233-261) and lines 403-413.
VerifyOutcomes(b) ==
    IF ~verifierLoaded THEN {"skipped"}
    ELSE IF ~(Indexable(JIndex(b.b, 0)) /\ Indexable(JIndex(b.b, 1))) THEN {"threw"}
    ELSE {"valid", "invalid", "threw"}

VerifyProofLocally(r) ==
    /\ pc[r] = "verifyProofLocally"
    /\ \E o \in VerifyOutcomes(body[r]) :
          LET locals == [loc[r] EXCEPT !.isLocallyValid = o] IN
          IF o \in {"invalid", "threw"}
          THEN Fail(r, Err("InvalidProof", {}), locals, chainLog)
          ELSE Goto(r, "isRootKnown", locals, chainLog)
    /\ UNCHANGED <<Chain, Config, Account>>

\* A bytes32 argument is built from the value's hex digits: a negative value
\* gives no valid hex string and the client throws before any request is made.
ReadOutcomes(value, truth) == IF value < 0 THEN {"error"} ELSE {truth, "error"}

\* isRootKnown (266-280) and lines 417-424.
IsRootKnown(r) ==
    /\ pc[r] = "isRootKnown"
    /\ \E o \in ReadOutcomes(Root(r), IF Root(r) \in knownRoots THEN "known" ELSE "unknown") :
          Goto(r, IF o = "known" THEN "isNullifierUsed" ELSE "isOwner",
               [loc[r] EXCEPT !.isRootKnown = o], Logged(r, "isKnownRoot", o))
    /\ UNCHANGED <<Chain, Config, Account>>

\* Variant: a failed owner read is taken for permission.
MayAddRootUnlessDenied(answer) == answer # "notOwner"

\* The decision of lines 424-435 on the owner read's answer.
MayAddRoot(answer) == answer = "owner"

\* isOwner (304-316) and lines 424-435.
IsOwner(r) ==
    /\ pc[r] = "isOwner"
    /\ \E o \in {IF relayerIsOwner THEN "owner" ELSE "notOwner", "error"} :
          LET locals == [loc[r] EXCEPT !.canAddRoot = o] IN
          IF MayAddRoot(o)
          THEN Goto(r, "addKnownRoot", locals, Logged(r, "owner", o))
          ELSE Fail(r, Err("InvalidMerkleRoot", {}), locals, Logged(r, "owner", o))
    /\ UNCHANGED <<Chain, Config, Account>>

\* The awaits at which the wallet client is asked to send a transaction
SendSteps == {"addKnownRoot", "sendSwap", "sendFunding"}

\* Inside writeContract and sendTransaction the wallet client, given no nonce
\* (371-376, 574-579, 343-346), first reads the account's pending transaction
\* count and takes it for the transaction's nonce.
GetTransactionCount(r) ==
    /\ pc[r] \in SendSteps
    /\ loc[r].nonce = -1
    /\ loc' = [loc EXCEPT ![r].nonce = pendingCount]
    /\ UNCHANGED <<pc, thrown, result, estimate, response, chainLog, Chain, Config, Account>>

\* The transaction is signed with the nonce read and sent: the account's
\* pending count moves past that nonce.  Only the swap is given a gas limit
\* (577); gas is 0 for the sends that leave it to the client.
Submit(r, op, o) ==
    IF o = "sent"
    THEN /\ submitted' = Append(submitted,
                [req |-> r, op |-> op, nonce |-> loc[r].nonce,
                 gas |-> IF op = "swap" THEN loc[r].gasLimit ELSE 0])
         /\ pendingCount' = IF loc[r].nonce >= pendingCount THEN loc[r].nonce + 1
                             ELSE pendingCount
    ELSE UNCHANGED Account

\* addKnownRoot (368-376): walletClient.writeContract.
AddKnownRoot(r) ==
    /\ pc[r] = "addKnownRoot"
    /\ loc[r].nonce # -1
    /\ \E o \in IF Root(r) < 0 THEN {"threw"} ELSE {"sent", "threw"} :
          LET locals == [loc[r] EXCEPT !.added = o, !.nonce = -1] IN
          /\ IF o = "sent"
             THEN Goto(r, "waitAddKnownRoot", locals, Logged(r, "addKnownRoot", o))
             ELSE Fail(r, Err("InvalidMerkleRoot", {}), locals, Logged(r, "addKnownRoot", o))
          /\ Submit(r, "addKnownRoot", o)
    /\ UNCHANGED <<Chain, Config>>

\* Variant: the catch of addKnownRoot reports success.
AddedAlways(o) == TRUE

\* addKnownRoot returns true once the wait has returned a receipt, whatever
\* its status, and false when the wait throws (380-390).
Added(o) == o # "threw"

\* addKnownRoot (380-390): waitForTransactionReceipt, and lines 427-437.
WaitAddKnownRoot(r) ==
    /\ pc[r] = "waitAddKnownRoot"
    /\ \E o \in {"success", "reverted", "threw"} :
          LET locals == [loc[r] EXCEPT !.added = o]
              log == Logged(r, "waitAddKnownRoot", o)
          IN /\ IF Added(o)
                THEN Goto(r, "isNullifierUsed", locals, log)
                ELSE Fail(r, Err("InvalidMerkleRoot", {}), locals, log)
             /\ knownRoots' = IF o = "success" THEN knownRoots \cup {Root(r)} ELSE knownRoots
    /\ UNCHANGED <<nullifierHashes, Config, Account>>

\* Variant: the answer of the nullifier read is not acted on.
IsSpentNever(answer) == FALSE

\* if (isNullifierUsed) (441)
IsSpent(answer) == answer = "spent"

\* isNullifierUsed (285-299) and lines 440-519.
IsNullifierUsed(r) ==
    /\ pc[r] = "isNullifierUsed"
    /\ \E o \in ReadOutcomes(Nullifier(r),
                    IF Nullifier(r) \in nullifierHashes THEN "spent" ELSE "unspent") :
          LET locals == [loc[r] EXCEPT !.isNullifierUsed = o]
              log == Logged(r, "nullifierHashes", o)
          IN IF IsSpent(o) THEN Fail(r, Err("NullifierAlreadyUsed", {}), locals, log)
             ELSE \E err \in {Prepare(body[r])} :
                     IF err # NoError THEN Fail(r, err, locals, log)
                     ELSE Goto(r, "estimateGas", locals, log)
    /\ UNCHANGED <<Chain, Config, Account>>

\* What the chain client's errors may say.
EstimateMessages == {{}, {"InvalidProof"}, {"insufficient funds"}}
CallMessages ==
    {{}} \cup {{m} : m \in RevertSignatures} \cup {{"NullifierAlreadyUsed", "InvalidMerkleRoot"}}
SendMessages == {{}, {"insufficient funds"}}

\* What estimateGas may return: 7 is a value whose 120% is not whole.
GasEstimates == {7, 21000}
GAS_BUFFER_NUMERATOR == 120
GAS_BUFFER_DENOMINATOR == 100

\* Variant: the estimate is used as the limit.
GasLimitUnbuffered(gasEstimate) == gasEstimate

\* const gasLimit = (gasEstimate * 120n) / 100n (571)
GasLimit(gasEstimate) ==
    BigIntDiv(gasEstimate * GAS_BUFFER_NUMERATOR, GAS_BUFFER_DENOMINATOR)

\* publicClient.estimateGas (523-530) and lines 568-579.
EstimateGas(r) ==
    /\ pc[r] = "estimateGas"
    /\ \/ \E g \in GasEstimates :
             Goto(r, "sendSwap",
                  [loc[r] EXCEPT !.estimate = "ok", !.gasEstimate = g,
                                 !.gasLimit = GasLimit(g)],
                  Logged(r, "estimateGas", "ok"))
       \/ \E m \in EstimateMessages, n \in MessageLengths :
             Goto(r, "simulate",
                  [loc[r] EXCEPT !.estimate = "reverted", !.estimateError = m,
                                 !.estimateLength = n],
                  Logged(r, "estimateGas", "threw"))
    /\ UNCHANGED <<Chain, Config, Account>>

\* Lines 542-565: the error thrown once the estimate has failed, given what
\* the read-only call's error says (or that it did not fail).
\* `Contract reverted: ${estimateError?.shortMessage || estimateError?.message
\* || "Unknown reason"}. Check proof validity and contract state.` (565): 19
\* characters, the estimate's message or the 14 of "Unknown reason", and 42.
ContractRevertedLength(estimateLength) ==
    19 + (IF estimateLength = 0 THEN 14 ELSE estimateLength) + 42

SimulationError(callFailed, callMessage, estimateMessage, estimateLength) ==
    IF callFailed /\ "InvalidProof" \in callMessage THEN Err("InvalidProof", {})
    ELSE IF callFailed /\ "InvalidMerkleRoot" \in callMessage THEN Err("InvalidMerkleRoot", {})
    ELSE IF callFailed /\ "NullifierAlreadyUsed" \in callMessage
    THEN Err("NullifierAlreadyUsed", {})
    ELSE IF callFailed /\ "InvalidRecipient" \in callMessage THEN Err("InvalidRecipient", {})
    ELSE IF callFailed /\ "InvalidRelayerFee" \in callMessage THEN Err("InvalidRelayerFee", {})
    ELSE ErrOfLength("Contract reverted", estimateMessage,
                     ContractRevertedLength(estimateLength))

\* publicClient.call (534-566).
Simulate(r) ==
    /\ pc[r] = "simulate"
    /\ \/ LET o == "ok" IN
          Fail(r, SimulationError(FALSE, {}, loc[r].estimateError, loc[r].estimateLength),
               [loc[r] EXCEPT !.simulation = o], Logged(r, "call", o))
       \/ \E m \in CallMessages : LET o == "threw" IN
          Fail(r, SimulationError(TRUE, m, loc[r].estimateError, loc[r].estimateLength),
               [loc[r] EXCEPT !.simulation = o, !.callError = m], Logged(r, "call", o))
    /\ UNCHANGED <<Chain, Config, Account>>

\* walletClient.sendTransaction (574-579).
SendSwap(r) ==
    /\ pc[r] = "sendSwap"
    /\ loc[r].nonce # -1
    /\ LET locals == [loc[r] EXCEPT !.nonce = -1] IN
       \/ LET o == "sent" IN
             /\ Goto(r, "waitSwap", locals, Logged(r, "swap", o))
             /\ Submit(r, "swap", o)
       \/ \E m \in SendMessages, n \in MessageLengths : LET o == "threw" IN
             /\ Fail(r, ErrOfLength("client", m, n), locals, Logged(r, "swap", o))
             /\ Submit(r, "swap", o)
    /\ UNCHANGED <<Chain, Config>>

\* The RelayResult of lines 609-616.  The transaction hash is the position of
\* the send in the log.
SwapResult(r, log, funded) ==
    [returned |-> TRUE,
     txHash |-> CHOOSE i \in 1..Len(log) : log[i].req = r /\ log[i].op = "swap",
     relayerFee |-> RelayerFee(ToBigInt(body[r].amountSpecified).val,
                               ToBigInt(Signal(body[r], 6)).val),
     fundingTxHash |->
        IF funded
        THEN CHOOSE i \in 1..Len(log) : log[i].req = r /\ log[i].op = "funding"
        ELSE 0]

\* Variant: submitPrivateSwap returns and the route answers nothing.
ReturnUnanswered(r, locals, log, funded) ==
    /\ result' = [result EXCEPT ![r] = SwapResult(r, log, funded)]
    /\ pc' = [pc EXCEPT ![r] = "done"]
    /\ loc' = [loc EXCEPT ![r] = locals]
    /\ chainLog' = log
    /\ UNCHANGED <<thrown, estimate, response>>

\* submitPrivateSwap returns and the route answers res.json (517-537).
Succeed(r, locals, log, funded) ==
    /\ result' = [result EXCEPT ![r] = SwapResult(r, log, funded)]
    /\ response' = [response EXCEPT ![r] = Response(200, "")]
    /\ pc' = [pc EXCEPT ![r] = "done"]
    /\ loc' = [loc EXCEPT ![r] = locals]
    /\ chainLog' = log
    /\ UNCHANGED <<thrown, estimate>>

\* waitForTransactionReceipt (584-587), lines 589-604 and the first lines of
\* fundStealthAddress (323-326).  The receipt's status is not read.
WaitSwap(r) ==
    /\ pc[r] = "waitSwap"
    /\ \/ \E o \in {"success", "reverted"} :
             LET locals == [loc[r] EXCEPT !.receipt = o]
                 log == Logged(r, "waitSwap", o)
             IN /\ IF ENABLE_STEALTH_FUNDING THEN Goto(r, "getBalance", locals, log)
                   ELSE Succeed(r, locals, log, FALSE)
                /\ nullifierHashes' =
                      IF o = "success" THEN nullifierHashes \cup {Nullifier(r)}
                      ELSE nullifierHashes
       \/ /\ \E n \in MessageLengths : LET o == "threw" IN
               Fail(r, ErrOfLength("client", {}, n), [loc[r] EXCEPT !.receipt = o],
                    Logged(r, "waitSwap", o))
          /\ UNCHANGED nullifierHashes
    /\ UNCHANGED <<knownRoots, Config, Account>>

Balances == {STEALTH_FUNDING_WEI - 1, STEALTH_FUNDING_WEI}

\* Variant: a balance equal to the funding amount is topped up.
ExceedsFundingAmount(existingBalance) == existingBalance > STEALTH_FUNDING_WEI

\* existingBalance >= fundingAmount (336)
HasSufficientBalance(existingBalance) == existingBalance >= STEALTH_FUNDING_WEI

\* fundStealthAddress: publicClient.getBalance (332-339).
GetBalance(r) ==
    /\ pc[r] = "getBalance"
    /\ \/ \E existingBalance \in Balances :
             LET o == IF HasSufficientBalance(existingBalance) THEN "sufficient" ELSE "low"
                 locals == [loc[r] EXCEPT !.balance = o, !.existingBalance = existingBalance]
                 log == Logged(r, "getBalance", o)
             IN IF o = "sufficient" THEN Succeed(r, locals, log, FALSE)
                ELSE Goto(r, "sendFunding", locals, log)
       \/ LET o == "threw" IN
             Succeed(r, [loc[r] EXCEPT !.balance = o], Logged(r, "getBalance", o), FALSE)
    /\ UNCHANGED <<Chain, Config, Account>>

\* fundStealthAddress: walletClient.sendTransaction (343-346).
SendFunding(r) ==
    /\ pc[r] = "sendFunding"
    /\ loc[r].nonce # -1
    /\ LET locals == [loc[r] EXCEPT !.nonce = -1] IN
       \/ LET o == "sent" IN
             /\ Goto(r, "waitFunding", locals, Logged(r, "funding", o))
             /\ Submit(r, "funding", o)
       \/ LET o == "threw" IN
             /\ Succeed(r, locals, Logged(r, "funding", o), FALSE)
             /\ Submit(r, "funding", o)
    /\ UNCHANGED <<Chain, Config>>

\* Variant: the funding hash is returned whatever the wait did.
FundedAlways(o) == TRUE

\* fundStealthAddress returns txHash once the wait has returned (357), and
\* null from its catch (361).
Funded(o) == o # "threw"

\* fundStealthAddress: waitForTransactionReceipt (351-362), then lines 605-616.
WaitFunding(r) ==
    /\ pc[r] = "waitFunding"
    /\ \E o \in {"success", "reverted", "threw"} :
          Succeed(r, [loc[r] EXCEPT !.fundingReceipt = o], Logged(r, "waitFunding", o),
                  Funded(o))
    /\ UNCHANGED <<Chain, Config, Account>>

GasPrices == {1, 2}

\* estimateRelay: publicClient.estimateGas (656-670).
EstimateRelayGas(r) ==
    /\ pc[r] = "estimateRelayGas"
    /\ \/ \E g \in GasEstimates :
             Goto(r, "getGasPrice", [loc[r] EXCEPT !.estimate = "ok", !.gasEstimate = g],
                  Logged(r, "estimateGas", "ok"))
       \/ \E m \in EstimateMessages :
             FailEstimate(r, Err("client", m), Logged(r, "estimateGas", "threw"))
    /\ UNCHANGED <<Chain, Config, Account>>

\* estimateRelay: publicClient.getGasPrice (672-686), and the route's answer
\* (604-610).
GetGasPrice(r) ==
    /\ pc[r] = "getGasPrice"
    /\ \/ \E gasPrice \in GasPrices :
             LET gasCost == loc[r].gasEstimate * gasPrice
                 relayerFee == RelayerFee(ToBigInt(body[r].amountSpecified).val,
                                          ToBigInt(Signal(body[r], 6)).val)
             IN /\ estimate' = [estimate EXCEPT ![r] =
                       [returned |-> TRUE, gas |-> loc[r].gasEstimate, fee |-> gasCost,
                        relayerFee |-> relayerFee, totalCost |-> gasCost + relayerFee]]
                /\ response' = [response EXCEPT ![r] = Response(200, "")]
                /\ pc' = [pc EXCEPT ![r] = "done"]
                /\ chainLog' = Logged(r, "getGasPrice", "ok")
                /\ UNCHANGED <<loc, thrown, result>>
       \/ FailEstimate(r, Err("client", {}), Logged(r, "getGasPrice", "threw"))
    /\ UNCHANGED <<Chain, Config, Account>>

Next ==
    \E r \in RequestIds :
        \/ Validate(r)
        \/ VerifyProofLocally(r)
        \/ IsRootKnown(r)
        \/ IsOwner(r)
        \/ GetTransactionCount(r)
        \/ AddKnownRoot(r)
        \/ WaitAddKnownRoot(r)
        \/ IsNullifierUsed(r)
        \/ EstimateGas(r)
        \/ Simulate(r)
        \/ SendSwap(r)
        \/ WaitSwap(r)
        \/ GetBalance(r)
        \/ SendFunding(r)
        \/ WaitFunding(r)
        \/ EstimateRelayGas(r)
        \/ GetGasPrice(r)

Spec == Init /\ [][Next]_vars

\* Every chain-client call returns or throws, and the event loop then runs the
\* continuation of the handler that awaits it: a step that can be taken is
\* eventually taken.
\* The requests this specification draws from: the canonical request, and
\* requests that fail at each place a request can fail at (the validator, the
\* local check, the reads of a negative root or nullifier, the field checks,
\* the packing of the signals, the conversion of the price limit).
LiveBodies ==
    {Canonical,
     BaseBody(Str1("0"), Signal(Canonical, 6), Canonical.amountSpecified),
     BaseBody(Signal(Canonical, 4), JStr(<<"1", "0", "0", "1">>), Canonical.amountSpecified),
     [Canonical EXCEPT !.proofIsObject = FALSE],
     [Canonical EXCEPT !.hooks = ShortAddress],
     [Canonical EXCEPT !.sqrtPriceLimitX96 = Str1("g")]}
    \cup {[Canonical EXCEPT !.b = x] : x \in MatrixAlternatives}
    \cup {[Canonical EXCEPT !.publicSignals = Resize(Canonical.publicSignals, n)] :
            n \in SignalCounts}
    \cup {[Canonical EXCEPT !.publicSignals =
                 WithSignal(Canonical.publicSignals, i, JStr(<<"-", "1">>))] : i \in {3, 4}}

LiveInit == Init /\ body["r1"] \in LiveBodies

LiveSpec == LiveInit /\ [][Next]_vars /\ WF_vars(Next)

(***************************************************************************)
(* GET /status/:txHash, one action per awaited call.                       *)
(***************************************************************************)
relayVars == <<route, body, pc, loc, thrown, result, estimate, response, chainLog,
               knownRoots, nullifierHashes, relayerIsOwner, verifierLoaded,
               ENABLE_STEALTH_FUNDING, pendingCount, submitted>>

\* No POST /relay request has arrived.
RelayIdle ==
    /\ body = [r \in RequestIds |-> Canonical]
    /\ route = [r \in RequestIds |-> "relay"]
    /\ pc = [r \in RequestIds |-> "absent"]
    /\ loc = [r \in RequestIds |-> NoLocals]
    /\ thrown = [r \in RequestIds |-> NoError]
    /\ result = [r \in RequestIds |-> NoResult]
    /\ estimate = [r \in RequestIds |-> NoEstimate]
    /\ response = [r \in RequestIds |-> NoResponse]
    /\ chainLog = <<>>
    /\ pendingCount = 0
    /\ submitted = <<>>
    /\ knownRoots = ChainRoots
    /\ nullifierHashes = {}
    /\ relayerIsOwner = FALSE
    /\ verifierLoaded = FALSE
    /\ ENABLE_STEALTH_FUNDING = TRUE

StatusInit ==
    /\ RelayIdle
    /\ RateIdle
    /\ QuoteIdle
    /\ txHash \in TxHashes
    /\ txState \in TxStates
    /\ statusPc = "request"
    /\ statusResponse = NoStatusResponse
    /\ statusCalls = <<>>

StatusRespond(answer, calls) ==
    /\ statusResponse' = answer
    /\ statusPc' = "done"
    /\ statusCalls' = calls

\* Lines 25-32: the test of the hash, up to the first await.
StatusRequest ==
    /\ statusPc = "request"
    /\ IF ~IsTxHash(txHash)
       THEN StatusRespond(StatusAnswer(400, "Invalid transaction hash"), statusCalls)
       ELSE /\ statusPc' = "getTransactionReceipt"
            /\ UNCHANGED <<statusResponse, statusCalls>>
    /\ UNCHANGED <<txHash, txState, relayVars, rateVars, quoteVars>>

\* What a lookup may do: return the object, or throw for a transport failure
\* when the chain has it; return null, throw a not-found error or throw for a
\* transport failure when the chain has not.
LookupOutcomes(present) ==
    IF present THEN {"found", "failed"} ELSE {"null", "notFound", "failed"}

\* publicClient.getTransactionReceipt (33-45) and the answers of 37-43, 59-62.
GetTransactionReceipt ==
    /\ statusPc = "getTransactionReceipt"
    /\ \E o \in LookupOutcomes(txState \in {"success", "reverted"}) :
          LET calls == Append(statusCalls, [op |-> "getTransactionReceipt", out |-> o]) IN
          CASE o = "found" ->
                 StatusRespond(StatusAnswer(200, IF txState = "success" THEN "confirmed"
                                                 ELSE "failed"), calls)
            [] o = "null" ->
                 /\ statusPc' = "getTransaction"
                 /\ statusCalls' = calls
                 /\ UNCHANGED statusResponse
            [] OTHER -> StatusRespond(StatusAnswer(500, "Failed to check status"), calls)
    /\ UNCHANGED <<txHash, txState, relayVars, rateVars, quoteVars>>

\* publicClient.getTransaction (46-57) and the catch (59-62).
GetTransaction ==
    /\ statusPc = "getTransaction"
    /\ \E o \in LookupOutcomes(txState = "pending") :
          LET calls == Append(statusCalls, [op |-> "getTransaction", out |-> o]) IN
          CASE o = "found" ->
                 StatusRespond([StatusAnswer(200, "pending") EXCEPT !.nonce = PendingNonce],
                               calls)
            [] o = "null" -> StatusRespond(StatusAnswer(404, "Transaction not found"), calls)
            [] OTHER -> StatusRespond(StatusAnswer(500, "Failed to check status"), calls)
    /\ UNCHANGED <<txHash, txState, relayVars, rateVars, quoteVars>>

StatusNext ==
    \/ StatusRequest
    \/ GetTransactionReceipt
    \/ GetTransaction

StatusSpec == StatusInit /\ [][StatusNext]_vars

(***************************************************************************)
(* Two POST /relay requests in flight at once: the handlers are async       *)
(* functions of one process, so the steps of the two interleave at every    *)
(* await.                                                                   *)
(***************************************************************************)
\* Both requests have passed validation and the pre-flight reads (root
\* registered, nullifier unspent), and each awaits its gas estimate.
PreflightPassed ==
    [NoLocals EXCEPT !.isLocallyValid = "skipped", !.isRootKnown = "known",
                     !.isNullifierUsed = "unspent"]

PreflightReads(r) ==
    <<[req |-> r, op |-> "isKnownRoot", out |-> "known"],
      [req |-> r, op |-> "nullifierHashes", out |-> "unspent"]>>

ConcurrentInit ==
    /\ StatusIdle
    /\ RateIdle
    /\ QuoteIdle
    /\ body = [r \in RequestIds |-> Canonical]
    /\ route = [r \in RequestIds |-> "relay"]
    /\ pc = [r \in RequestIds |-> "estimateGas"]
    /\ loc = [r \in RequestIds |-> PreflightPassed]
    /\ thrown = [r \in RequestIds |-> NoError]
    /\ result = [r \in RequestIds |-> NoResult]
    /\ estimate = [r \in RequestIds |-> NoEstimate]
    /\ response = [r \in RequestIds |-> NoResponse]
    /\ chainLog = PreflightReads("r1") \o PreflightReads("r2")
    /\ pendingCount = 0
    /\ submitted = <<>>
    /\ knownRoots = ChainRoots
    /\ nullifierHashes = {}
    /\ relayerIsOwner = FALSE
    /\ verifierLoaded = FALSE
    /\ ENABLE_STEALTH_FUNDING \in BOOLEAN

ConcurrentNext ==
    \E r \in RequestIds :
        \/ EstimateGas(r)
        \/ Simulate(r)
        \/ GetTransactionCount(r)
        \/ SendSwap(r)
        \/ WaitSwap(r)
        \/ GetBalance(r)
        \/ SendFunding(r)
        \/ WaitFunding(r)

ConcurrentSpec == ConcurrentInit /\ [][ConcurrentNext]_vars

(***************************************************************************)
(* The rate limiter: RateLimiterMemory with points, duration and           *)
(* blockDuration (rateLimiter.ts 10-14), consumed once per request (24).   *)
(***************************************************************************)
MaxRequests == 12

\* The requests an IP may make: one of them enough to exceed the quota.
RequestCap(ip) == IF ip = "a" THEN MaxRequests ELSE MaxRequests - REQUESTS_PER_MINUTE

RateInit ==
    /\ RelayIdle
    /\ StatusIdle
    /\ RateIdle
    /\ QuoteIdle

\* Time passes to the next moment.
Tick ==
    /\ \E t \in Moments :
          /\ t > now
          /\ \A u \in Moments : u > now => t <= u
          /\ now' = t
    /\ UNCHANGED <<store, served, relayVars, statusVars, quoteVars>>

\* The record of a key counts while it has not expired.
Live(record) == record.consumedPoints > 0 /\ now < record.expiresAt

\* incrby: a live record is incremented, its expiry kept; otherwise a new
\* record is set, expiring after the duration.
Incremented(record) ==
    IF Live(record)
    THEN [record EXCEPT !.consumedPoints = @ + 1]
    ELSE [consumedPoints |-> 1, expiresAt |-> now + DURATION, window |-> now]

\* Variant: one request more than the quota passes.
ExceededLate(consumedPoints) == consumedPoints > REQUESTS_PER_MINUTE + 1

\* consumedPoints > points
Exceeded(consumedPoints) == consumedPoints > REQUESTS_PER_MINUTE

\* The first request over the quota blocks the key for blockDuration.
Blocked(record) ==
    IF BLOCK_DURATION > 0 /\ record.consumedPoints <= REQUESTS_PER_MINUTE + 1
    THEN [record EXCEPT !.expiresAt = now + BLOCK_DURATION]
    ELSE record

\* Math.ceil(msBeforeNext / 1000) (30)
RetryAfter(msBeforeNext) == (msBeforeNext + 999) \div 1000

\* rateLimiterMiddleware (16-33) for a request of one IP.
RateLimiterMiddleware(ip) ==
    /\ Len(served[ip]) < RequestCap(ip)
    /\ LET counted == Incremented(store[ip]) IN
       IF Exceeded(counted.consumedPoints)
       THEN LET rateLimiterRes == Blocked(counted)
                msBeforeNext == (rateLimiterRes.expiresAt - now) * 1000
            IN /\ store' = [store EXCEPT ![ip] = rateLimiterRes]
               /\ served' = [served EXCEPT ![ip] = Append(@,
                      [time |-> now, next |-> FALSE, status |-> 429,
                       retryAfter |-> RetryAfter(msBeforeNext),
                       window |-> rateLimiterRes.window])]
       ELSE /\ store' = [store EXCEPT ![ip] = counted]
            /\ served' = [served EXCEPT ![ip] = Append(@,
                   [time |-> now, next |-> TRUE, status |-> 0, retryAfter |-> 0,
                    window |-> counted.window])]
    /\ UNCHANGED <<now, relayVars, statusVars, quoteVars>>

RateNext ==
    \/ Tick
    \/ \E ip \in Ips : RateLimiterMiddleware(ip)

RateSpec == RateInit /\ [][RateNext]_vars

(***************************************************************************)
(* GET /fee/quote (src/src/routes/fee.ts, lines 59-93).                    *)
(***************************************************************************)
DEFAULT_FEE_BPS == 10
ESTIMATED_GAS == 250000

\* req.query.amount: absent, a string, or (the parameter given twice) an array
QuoteAmounts ==
    {JUndef, JStr(<<>>), JArr(<<Str1("1"), Str1("2")>>),
     Str1("0"), Str1("1"), JStr(<<"-", "1">>), JStr(<<"9", "9", "9">>),
     JStr(<<"1", "0", "0", "0">>), JStr(<<"-", "1", "0", "0", "0">>),
     JStr(<<"2", "5", "0", "1">>), JStr(<<"-", "2", "5", "0", "1">>),
     JStr(<<"1", "0", "0", "0", "0">>), JStr(<<"0", "0">>), JStr(<<"-", "0">>),
     JStr(<<"0", "x", "1", "0">>), JStr(<<" ", "1", "2", " ">>), Str1(" "),
     JStr(<<"1", ".", "5">>), JStr(<<"1", "e", "3">>), Str1("g")}

\* What getGasPrice may return, in wei
QuoteGasPrices == {0, 1, 2, 7}

QuoteInit ==
    /\ RelayIdle
    /\ StatusIdle
    /\ RateIdle
    /\ query \in QuoteAmounts
    /\ quotePc = "request"
    /\ quoteCalls = <<>>
    /\ quoteResponse = NoQuoteResponse

QuoteAnswer(status, text) ==
    [NoQuoteResponse EXCEPT !.sent = 1, !.status = status, !.error = text]

QuoteRespond(answer, calls) ==
    /\ quoteResponse' = answer
    /\ quotePc' = "done"
    /\ quoteCalls' = calls

\* Lines 60-67: the test of the parameter and BigInt(amount), whose
\* SyntaxError the catch answers (90-92).
QuoteRequest ==
    /\ quotePc = "request"
    /\ IF ~Truthy(query) \/ query.t # "str"
       THEN QuoteRespond(QuoteAnswer(400, "Missing amount parameter"), quoteCalls)
       ELSE IF ~ToBigInt(query).ok
       THEN QuoteRespond(QuoteAnswer(400, "Invalid amount"), quoteCalls)
       ELSE /\ quotePc' = "getGasPrice"
            /\ UNCHANGED <<quoteCalls, quoteResponse>>
    /\ UNCHANGED <<query, relayVars, statusVars, rateVars>>

\* (netAmount * BigInt(10000)) / amountBigInt (88): BigInt division by zero
\* throws a RangeError.
CanQuote(amountBigInt) == amountBigInt # 0

\* Lines 69-89: the quote, its numbers as the integers the response prints.
\* netAmountPercent is kept in hundredths of a percent.
Quote(amountBigInt, gasPrice) ==
    LET gasCost == gasPrice * ESTIMATED_GAS
        relayerFee == BigIntDiv(amountBigInt * DEFAULT_FEE_BPS, BPS_DENOMINATOR)
        netAmount == amountBigInt - relayerFee
    IN [sent |-> 1, status |-> 200, error |-> "", relayerFee |-> relayerFee,
        gasCostWei |-> gasCost, totalCost |-> gasCost + relayerFee, netAmount |-> netAmount,
        netAmountPercent |->
            IF amountBigInt = 0 THEN BPS_DENOMINATOR
            ELSE BigIntDiv(netAmount * BPS_DENOMINATOR, amountBigInt)]

\* publicClient.getGasPrice (68), the quote (69-89) and the catch (90-92).
GetQuoteGasPrice ==
    /\ quotePc = "getGasPrice"
    /\ \/ \E gasPrice \in QuoteGasPrices :
             LET calls == Append(quoteCalls, [op |-> "getGasPrice", ok |-> TRUE,
                                              gasPrice |-> gasPrice])
             IN IF CanQuote(ToBigInt(query).val)
                THEN QuoteRespond(Quote(ToBigInt(query).val, gasPrice), calls)
                ELSE QuoteRespond(QuoteAnswer(400, "Invalid amount"), calls)
       \/ QuoteRespond(QuoteAnswer(400, "Invalid amount"),
                       Append(quoteCalls, [op |-> "getGasPrice", ok |-> FALSE, gasPrice |-> 0]))
    /\ UNCHANGED <<query, relayVars, statusVars, rateVars>>

QuoteNext ==
    \/ QuoteRequest
    \/ GetQuoteGasPrice

QuoteSpec == QuoteInit /\ [][QuoteNext]_vars

(***************************************************************************)
(* Properties.                                                             *)
(***************************************************************************)
Relay(r) == route[r] = "relay"
Validated(r) == validateRelayRequest(body[r]).next
Count(r, ops) == Cardinality(Calls(r, ops))
AllCalls(r) == {i \in 1..Len(chainLog) : chainLog[i].req = r}
Amount(r) == ToBigInt(body[r].amountSpecified).val
FeeBps(r) == ToBigInt(Signal(body[r], 6)).val

\* A well-formed request all of whose chain reads were answered
Healthy(r) ==
    /\ body[r] \in BaseBodies
    /\ loc[r].isRootKnown # "error"
    /\ loc[r].canAddRoot # "error"
    /\ loc[r].isNullifierUsed # "error"

C2_RevertedReceiptFails ==
    \A r \in RequestIds :
        (Relay(r) /\ pc[r] = "done" /\ Healthy(r) /\ loc[r].receipt = "reverted")
        => (response[r].status = 500 /\ ~result[r].returned)

\* C3: once the root read has answered "unregistered" and the owner read has
\* answered that the relayer is the owner, exactly one addKnownRoot
\* transaction is issued for the request, and every swap transaction of the
\* request comes after that registration was sent and its receipt awaited.
C3_OneRegistrationBeforeSwap ==
    \A r \in RequestIds :
        (Relay(r) /\ loc[r].isRootKnown = "unknown" /\ loc[r].canAddRoot = "owner")
        => /\ Count(r, {"addKnownRoot"}) = IF pc[r] = "addKnownRoot" THEN 0 ELSE 1
           /\ \A sw \in Calls(r, {"swap"}) :
                 \E a \in Calls(r, {"addKnownRoot"}), w \in Calls(r, {"waitAddKnownRoot"}) :
                     /\ a < w /\ w < sw
                     /\ chainLog[a].out = "sent"
                     /\ chainLog[w].out \in {"success", "reverted"}

C3_Witness ==
    \E r \in RequestIds :
        /\ Relay(r) /\ pc[r] = "done"
        /\ loc[r].isRootKnown = "unknown" /\ loc[r].canAddRoot = "owner"
        /\ Count(r, {"addKnownRoot"}) = 1
        /\ Count(r, {"swap"}) = 1
        /\ response[r].status = 200

\* C4: when the root read answers "unregistered" and the relayer is not the
\* pool owner, no addKnownRoot and no swap transaction is ever attempted, and
\* the request ends with HTTP 400 and code INVALID_ROOT.
C4_NotOwnerInvalidRoot ==
    \A r \in RequestIds :
        (Relay(r) /\ loc[r].isRootKnown = "unknown" /\ ~relayerIsOwner)
        => /\ Calls(r, WriteOps) = {}
           /\ pc[r] \in {"isOwner", "done"}
           /\ pc[r] = "done" =>
                 (response[r].status = 400 /\ response[r].code = "INVALID_ROOT")

C4_Witness ==
    \E r \in RequestIds :
        /\ Relay(r) /\ pc[r] = "done"
        /\ loc[r].isRootKnown = "unknown" /\ loc[r].canAddRoot = "notOwner"
        /\ response[r].code = "INVALID_ROOT"
        /\ Calls(r, WriteOps) = {}

\* The fees returned for the requests that got one
ReturnedFees ==
    {<<Amount(r), FeeBps(r), result[r].relayerFee>> : r \in {x \in RequestIds : result[x].returned}}
    \cup
    {<<Amount(r), FeeBps(r), estimate[r].relayerFee>> :
        r \in {x \in RequestIds : estimate[x].returned}}

\* C5 (as claimed): the relayerFee returned by submitPrivateSwap and by
\* estimateRelay is the floor of amountSpecified * feeBps / 10000, for fee
\* signals in 0..1000 and amounts of either sign.
C5_FeeIsFloor ==
    \A f \in ReturnedFees :
        f[2] \in 0..MAX_FEE_BPS => f[3] = (f[1] * f[2]) \div BPS_DENOMINATOR

\* C5 (amended): the relayerFee returned is the quotient of
\* amountSpecified * feeBps by 10000 truncated toward zero: the floor for an
\* amount >= 0, and the ceiling for a negative amount.
C5_FeeIsTruncatedQuotient ==
    \A f \in ReturnedFees :
        f[2] \in 0..MAX_FEE_BPS =>
            LET p == f[1] * f[2]
                q == f[3]
            IN /\ p >= 0 => (q * BPS_DENOMINATOR <= p /\ p < (q + 1) * BPS_DENOMINATOR)
               /\ p < 0 => ((q - 1) * BPS_DENOMINATOR < p /\ p <= q * BPS_DENOMINATOR)

C5_Witness ==
    \E r \in RequestIds :
        /\ result[r].returned /\ Amount(r) < 0 /\ FeeBps(r) \in 1..MAX_FEE_BPS
        /\ result[r].relayerFee < 0
        /\ result[r].relayerFee # (Amount(r) * FeeBps(r)) \div BPS_DENOMINATOR

\* proof.a and proof.c are pairs and proof.b is a pair of pairs
ProofShape2x2(b) ==
    /\ b.proofIsObject
    /\ IsArrayOfLength(b.a, 2)
    /\ IsArrayOfLength(b.c, 2)
    /\ IsArrayOfLength(b.b, 2)
    /\ \A i \in 1..2 : IsArrayOfLength(b.b.v[i], 2)

\* C6: a request whose proof.a, proof.b or proof.c has not the required shape
\* (2, 2x2, 2) is answered 400 by the validator, next() is never called and
\* no chain-client call is made for it.
C6_MalformedProofRejected ==
    \A r \in RequestIds :
        (pc[r] # "absent" /\ ~ProofShape2x2(body[r]))
        => /\ pc[r] = "validate" \/ (pc[r] = "done" /\ response[r].status = 400)
           /\ AllCalls(r) = {}

\* a non-empty string of decimal digits
DecimalNumeric(e) == e.t = "str" /\ e.v # <<>> /\ AllIn(e.v, DecDigits)

\* The request reaches the loop over publicSignals (lines 18-44 let it pass).
ReachesSignalLoop(b) ==
    /\ validateRelayRequest([b EXCEPT !.publicSignals = Canonical.publicSignals]).error
          \notin {"Missing or invalid proof", "Invalid proof.a", "Invalid proof.b",
                   "Invalid proof.c"}
    /\ b.publicSignals.t = "arr"
    /\ Len(b.publicSignals.v) >= MinSignals

FirstNonDecimal(ps) ==
    (CHOOSE i \in 1..Len(ps.v) :
        /\ ~DecimalNumeric(ps.v[i])
        /\ \A k \in 1..(i - 1) : DecimalNumeric(ps.v[k])) - 1

\* C7: a request whose publicSignals holds an entry that is not a string of
\* decimal digits (a non-string, the empty string, a string with a non-digit
\* character) is answered 400 by the validator, naming the index of the
\* first such entry, and next() is not called.
C7_NonDecimalSignalRejected ==
    \A r \in RequestIds :
        (/\ pc[r] \notin {"absent", "validate"}
         /\ ReachesSignalLoop(body[r])
         /\ \E i \in 1..Len(body[r].publicSignals.v) :
               ~DecimalNumeric(body[r].publicSignals.v[i]))
        => /\ pc[r] = "done"
           /\ response[r].status = 400
           /\ response[r].index = FirstNonDecimal(body[r].publicSignals)

PreflightErrors ==
    {"InvalidMerkleRoot", "NullifierAlreadyUsed", "InvalidRecipient", "InvalidRelayerFee"}

\* C8: every pre-flight failure of POST /relay (unregistered root, spent
\* nullifier, zero recipient signal, fee signal above 1000), that is every
\* such error thrown before the gas estimate, is answered with HTTP 400
\* (stated for well-formed requests whose chain reads were all answered).
C8_PreflightFailureIs400 ==
    \A r \in RequestIds :
        (/\ Relay(r) /\ pc[r] = "done" /\ Healthy(r)
         /\ loc[r].estimate = "none"
         /\ thrown[r].category \in PreflightErrors)
        => response[r].status = 400

\* The recipient signal is zero or the fee signal exceeds 1000.
FieldSanityFails(b) ==
    \/ ToBigInt(Signal(b, 4)).ok /\ ToBigInt(Signal(b, 4)).val = 0
    \/ ToBigInt(Signal(b, 6)).ok /\ ToBigInt(Signal(b, 6)).val > MAX_FEE_BPS

\* C9: for a validated POST /relay request whose recipient signal is zero or
\* whose fee signal exceeds 1000, the relayer issues no transaction of any
\* kind: no root registration, no swap, no funding transfer (stated for
\* well-formed requests whose chain reads were all answered).
C9_BadFieldNoTransaction ==
    \A r \in RequestIds :
        (/\ Relay(r) /\ pc[r] # "absent" /\ Validated(r) /\ Healthy(r)
         /\ FieldSanityFails(body[r]))
        => Calls(r, WriteOps) = {}

\* C10: when the gas estimate reverts and the read-only call fails with a
\* message holding one of the seven known revert signatures, the request
\* fails with the error category of a signature of that message, HTTP 400
\* and a code specific to that signature, and no swap transaction is sent
\* (stated for well-formed requests whose chain reads were all answered).
C10_KnownRevertIsTyped400 ==
    \A r \in RequestIds :
        (/\ Relay(r) /\ pc[r] = "done" /\ Healthy(r)
         /\ loc[r].simulation = "threw"
         /\ loc[r].callError \cap RevertSignatures # {})
        => /\ thrown[r].category \in loc[r].callError \cap RevertSignatures
           /\ response[r].status = 400
           /\ response[r].code \notin {"", "RELAY_FAILED"}
           /\ Calls(r, {"swap"}) = {}

\* The markers a message is searched for
KnownMarkers == RevertSignatures \cup {"insufficient funds"}

\* C11: when the gas estimate of a POST /relay request reverts and neither
\* the estimate's message nor that of the read-only call (if it failed at
\* all) holds a known signature, the request fails with the generic
\* "Contract reverted" error: HTTP 500, code RELAY_FAILED, details being the
\* error's message cut to at most 500 characters, and no swap is sent.
C11_UnknownRevertIs500 ==
    \A r \in RequestIds :
        (/\ Relay(r) /\ pc[r] = "done"
         /\ loc[r].estimate = "reverted"
         /\ (loc[r].callError \cup loc[r].estimateError) \cap KnownMarkers = {})
        => /\ thrown[r].category = "Contract reverted"
           /\ response[r].status = 500
           /\ response[r].code = "RELAY_FAILED"
           /\ response[r].details <= DETAILS_LIMIT
           /\ response[r].details =
                 IF thrown[r].length <= DETAILS_LIMIT THEN thrown[r].length ELSE DETAILS_LIMIT
           /\ thrown[r].length >= loc[r].estimateLength
           /\ Calls(r, {"swap"}) = {}

C11_Witness ==
    \E r \in RequestIds :
        /\ Relay(r) /\ pc[r] = "done"
        /\ loc[r].estimate = "reverted" /\ loc[r].simulation = "ok"
        /\ loc[r].estimateError = {}
        /\ thrown[r].length > DETAILS_LIMIT
        /\ response[r].status = 500 /\ response[r].details = DETAILS_LIMIT

\* C12: a POST /relay request one of whose chain reads failed in transport
\* (the RPC endpoint did not answer) is answered 503, and never with a 400
\* contract-state code (stated for well-formed requests).
C12_TransportFailureIs503 ==
    \A r \in RequestIds :
        (/\ Relay(r) /\ pc[r] = "done" /\ body[r] \in BaseBodies
         /\ \/ loc[r].isRootKnown = "error"
            \/ loc[r].canAddRoot = "error"
            \/ loc[r].isNullifierUsed = "error")
        => /\ response[r].status = 503
           /\ response[r].code \notin {"INVALID_ROOT", "NULLIFIER_USED", "INVALID_PROOF"}

\* C13: when the verifier is loaded and reports the proof invalid, POST /relay
\* is answered 400 INVALID_PROOF and no chain call has been made; when the
\* verifier is not loaded the local check is skipped and the request goes on
\* to the root read.
C13_LocalCheckRejectsOrIsSkipped ==
    \A r \in RequestIds :
        /\ (Relay(r) /\ loc[r].isLocallyValid = "invalid")
           => /\ verifierLoaded
              /\ pc[r] = "done"
              /\ response[r].status = 400
              /\ response[r].code = "INVALID_PROOF"
              /\ AllCalls(r) = {}
        /\ (Relay(r) /\ ~verifierLoaded /\ Validated(r)
            /\ pc[r] \notin {"absent", "validate", "verifyProofLocally"})
           => /\ loc[r].isLocallyValid = "skipped"
              /\ pc[r] = "isRootKnown" \/ Count(r, {"isKnownRoot"}) = 1

C13_Witness ==
    \E r \in RequestIds :
        /\ Relay(r) /\ pc[r] = "done" /\ verifierLoaded
        /\ loc[r].isLocallyValid = "invalid"
        /\ response[r].code = "INVALID_PROOF"

\* C14: when the local verification routine itself throws, the request is not
\* failed for it: it goes on to the root read (stated for well-formed
\* requests).
C14_LocalCheckErrorNotFatal ==
    \A r \in RequestIds :
        (Relay(r) /\ body[r] \in BaseBodies /\ loc[r].isLocallyValid = "threw")
        => /\ thrown[r].category # "InvalidProof"
           /\ pc[r] = "isRootKnown" \/ Count(r, {"isKnownRoot"}) = 1

\* A step of fundStealthAddress failed for the request.
FundingFailed(r) ==
    \/ loc[r].balance = "threw"
    \/ \E i \in Calls(r, {"funding"}) : chainLog[i].out = "threw"
    \/ loc[r].fundingReceipt = "threw"

\* C15: once the swap's receipt has been returned, a failure of the balance
\* read, of the funding send or of the funding wait is swallowed:
\* submitPrivateSwap returns the swap's txHash and the relayerFee without a
\* fundingTxHash, and POST /relay answers success.
C15_FundingFailureSwallowed ==
    \A r \in RequestIds :
        (Relay(r) /\ FundingFailed(r))
        => /\ pc[r] = "done"
           /\ loc[r].receipt \in {"success", "reverted"}
           /\ response[r].status = 200
           /\ thrown[r] = NoError
           /\ result[r].returned
           /\ result[r].txHash \in Calls(r, {"swap"})
           /\ chainLog[result[r].txHash].out = "sent"
           /\ result[r].relayerFee = BigIntDiv(Amount(r) * FeeBps(r), BPS_DENOMINATOR)
           /\ result[r].fundingTxHash = 0

C15_Witness ==
    \E r \in RequestIds :
        /\ Relay(r) /\ pc[r] = "done"
        /\ loc[r].fundingReceipt = "threw"
        /\ Count(r, {"funding"}) = 1
        /\ response[r].status = 200 /\ result[r].fundingTxHash = 0

\* The read calls of estimateRelay
EstimateReads == {"estimateGas", "getGasPrice"}

\* C20: every step of a POST /relay/estimate request leaves the pool's
\* roots and nullifiers as they are and adds to the chain-client calls at
\* most one read (a gas estimate or a gas price): the request never sends a
\* transaction and never registers a root.
C20_EstimateOnlyReads ==
    [][\A r \in RequestIds :
          (route[r] = "estimate" /\ pc'[r] # pc[r])
          => /\ knownRoots' = knownRoots
             /\ nullifierHashes' = nullifierHashes
             /\ \/ chainLog' = chainLog
                \/ \E op \in EstimateReads, o \in {"ok", "threw"} :
                      chainLog' = Append(chainLog, [req |-> r, op |-> op, out |-> o])
             /\ \A i \in 1..Len(chainLog') :
                   chainLog'[i].req = r => chainLog'[i].op \in EstimateReads]_vars

C20_Witness ==
    \E r \in RequestIds :
        /\ route[r] = "estimate" /\ pc[r] = "done"
        /\ estimate[r].returned
        /\ Count(r, {"estimateGas"}) = 1 /\ Count(r, {"getGasPrice"}) = 1
        /\ Calls(r, WriteOps) = {}

\* 0x followed by exactly 64 hex characters
WellFormedHash(h) ==
    /\ Len(h) = HashLen + 2
    /\ SubSeq(h, 1, 2) = <<"0", "x">>
    /\ \A i \in 3..Len(h) :
          h[i] \in DecDigits \cup {"a", "b", "c", "d", "e", "f", "A", "B", "C", "D", "E", "F"}

\* Every lookup made said that the chain has nothing, by a null or by a
\* not-found error; none failed in transport.
AbsenceSignalled ==
    \A i \in 1..Len(statusCalls) : statusCalls[i].out \in {"null", "notFound"}

\* C16: GET /status/:txHash with a well-formed hash for which the chain has
\* neither a receipt nor a pending transaction is answered 404, whichever
\* way the chain client signals the absence.
C16_UnknownHashIs404 ==
    (/\ statusPc = "done" /\ WellFormedHash(txHash) /\ txState = "unknown"
     /\ AbsenceSignalled)
    => statusResponse.status = 404

\* C17: GET /status/:txHash with a hash that is not 0x followed by exactly 64
\* hex characters is answered 400, and no chain-client call is made.
C17_MalformedHashIs400 ==
    (statusPc # "absent" /\ ~WellFormedHash(txHash))
    => /\ statusCalls = <<>>
       /\ statusPc \in {"request", "done"}
       /\ statusPc = "done" => statusResponse.status = 400

C17_Witness ==
    /\ statusPc = "done"
    /\ Len(txHash) = HashLen + 3
    /\ IsPrefixedHex(txHash)
    /\ statusResponse.status = 400
    /\ statusCalls = <<>>

\* The requests of an IP that passed to next() at a time in [from, to)
Passed(ip, from, to) ==
    {i \in 1..Len(served[ip]) :
        served[ip][i].next /\ from <= served[ip][i].time /\ served[ip][i].time < to}

\* The requests of an IP counted in the same window before the i-th
CountedBefore(ip, i) ==
    {j \in 1..(i - 1) : served[ip][j].window = served[ip][i].window}

\* C18 (as claimed): in every span of 60 seconds at most 10 requests of one
\* IP pass rateLimiterMiddleware to next().
C18_TenPerAnySixtySeconds ==
    \A ip \in Ips : \A t \in Moments :
        Cardinality(Passed(ip, t, t + DURATION)) <= REQUESTS_PER_MINUTE

\* C18 (amended): the quota is counted per IP in fixed windows.  A window
\* begins with the first request of the IP after its previous record has
\* expired and lasts 60 seconds, or, once an 11th request has come, until 60
\* seconds after that request.  The first 10 requests of a window pass to
\* next(); every further one is answered 429 with retryAfter the seconds left
\* until the expiry, and does not pass.  Two windows of an IP begin at
\* least 60 seconds apart, so that any span of 60 seconds holds at most 20
\* passed requests of one IP.  An IP's requests are judged on that IP's
\* requests alone.
C18_TenPerFixedWindow ==
    \A ip \in Ips :
        /\ \A i \in 1..Len(served[ip]) :
              LET e == served[ip][i] IN
              /\ e.next <=> Cardinality(CountedBefore(ip, i)) < REQUESTS_PER_MINUTE
              /\ e.next => e.status = 0
              /\ ~e.next => /\ e.status = 429
                            /\ e.retryAfter \in 1..BLOCK_DURATION
                            /\ e.time + e.retryAfter >= e.window + DURATION
              /\ e.window <= e.time
              /\ e.next => e.time < e.window + DURATION
              /\ \A j \in 1..(i - 1) :
                    served[ip][j].window # e.window
                    => e.window >= served[ip][j].window + DURATION
        /\ \A t \in Moments :
              Cardinality(Passed(ip, t, t + DURATION)) <= 2 * REQUESTS_PER_MINUTE

C18_Witness ==
    /\ Len(served["a"]) > REQUESTS_PER_MINUTE
    /\ \E i \in 1..Len(served["a"]) :
          /\ served["a"][i].status = 429
          /\ \E j \in (i + 1)..Len(served["a"]) : served["a"][j].next
    /\ \E i \in 1..Len(served["b"]) :
          served["b"][i].next /\ served["b"][i].time = DURATION - 1

\* C19: no two transactions of the relayer account (root registration, swap,
\* stealth funding) are sent with the same nonce, whatever the interleaving
\* of two concurrent POST /relay requests.
C19_NoNonceSharedBySends ==
    \A i, j \in 1..Len(submitted) :
        i # j => submitted[i].nonce # submitted[j].nonce

\* The swap transactions the relayer account sent for a request
SwapsSent(r) == {i \in 1..Len(submitted) : submitted[i].req = r /\ submitted[i].op = "swap"}

\* The awaits of submitPrivateSwap that come before the swap is sent
BeforeSwap ==
    {"validate", "verifyProofLocally", "isRootKnown", "isOwner", "addKnownRoot",
     "waitAddKnownRoot", "isNullifierUsed", "estimateGas", "simulate", "sendSwap"}

\* C21: a POST /relay request calls the swap's sendTransaction at most once
\* and at most one swap transaction of the request reaches the chain: once
\* the swap was sent, whatever fails afterwards (the receipt wait, the
\* funding), the request never returns to a step from which the swap is sent.
C21_AtMostOneSwap ==
    \A r \in RequestIds :
        Relay(r)
        => /\ Count(r, {"swap"}) <= 1
           /\ Cardinality(SwapsSent(r)) <= 1
           /\ Count(r, {"swap"}) = 1 => pc[r] \notin BeforeSwap

C21_Witness ==
    \E r \in RequestIds :
        /\ Relay(r) /\ pc[r] = "done"
        /\ Cardinality(SwapsSent(r)) = 1
        /\ loc[r].receipt = "threw"
        /\ response[r].status = 500

\* C22: a swap transaction is sent only after every earlier step passed, in
\* order: the local proof check returned valid or was skipped, the root read
\* answered registered or the registration transaction succeeded, the
\* nullifier read answered not spent, the recipient signal is nonzero and the
\* fee signal at most 1000, and the gas estimate succeeded (stated for
\* well-formed requests whose chain reads were all answered).
C22_SwapOnlyAfterEveryStepPassed ==
    \A r \in RequestIds :
        (Relay(r) /\ Healthy(r) /\ Count(r, {"swap"}) >= 1)
        => /\ loc[r].isLocallyValid \in {"valid", "skipped"}
           /\ loc[r].isRootKnown = "known" \/ loc[r].added = "success"
           /\ loc[r].isNullifierUsed = "unspent"
           /\ ToBigInt(Signal(body[r], 4)).val # 0
           /\ FeeBps(r) <= MAX_FEE_BPS
           /\ loc[r].estimate = "ok"
           /\ \A sw \in Calls(r, {"swap"}) :
                 \E k \in Calls(r, {"isKnownRoot"}), n \in Calls(r, {"nullifierHashes"}),
                    g \in Calls(r, {"estimateGas"}) :
                     k < n /\ n < g /\ g < sw

\* C23: every swap transaction is sent with gas limit
\* floor(gasEstimate * 120 / 100), gasEstimate being what the gas estimate
\* returned in the request's last chain-client call before the send; the
\* limit is at least the estimate and exceeds it for every
\* estimate of 5 or more.
C23_GasLimitIsBufferedEstimate ==
    \A i \in 1..Len(submitted) :
        submitted[i].op = "swap"
        => LET r == submitted[i].req
               g == loc[r].gasEstimate
           IN /\ g \in GasEstimates
              /\ submitted[i].gas * GAS_BUFFER_DENOMINATOR <= g * GAS_BUFFER_NUMERATOR
              /\ (submitted[i].gas + 1) * GAS_BUFFER_DENOMINATOR > g * GAS_BUFFER_NUMERATOR
              /\ submitted[i].gas >= g
              /\ g >= 5 => submitted[i].gas > g
              /\ \E sw \in Calls(r, {"swap"}), e \in Calls(r, {"estimateGas"}) :
                    /\ e < sw
                    /\ chainLog[e].out = "ok"
                    /\ \A j \in AllCalls(r) : ~(e < j /\ j < sw)

C23_Witness ==
    \E i \in 1..Len(submitted) :
        /\ submitted[i].op = "swap"
        /\ loc[submitted[i].req].gasEstimate = 7
        /\ submitted[i].gas = 8

\* C24: a funding transfer is sent only when stealth funding is enabled and
\* the balance read for the recipient is strictly below the funding amount,
\* and at most one is sent per request; when funding is disabled no balance
\* is read, and when it is disabled or the balance is at or above the amount
\* the request sends no funding transfer and returns no fundingTxHash.
C24_FundingOnlyWhenEnabledAndLow ==
    \A r \in RequestIds :
        Relay(r)
        => /\ Count(r, {"funding"}) <= 1
           /\ Count(r, {"funding"}) = 1
              => /\ ENABLE_STEALTH_FUNDING
                 /\ loc[r].existingBalance \in 0..(STEALTH_FUNDING_WEI - 1)
           /\ ~ENABLE_STEALTH_FUNDING => Count(r, {"getBalance", "funding"}) = 0
           /\ (/\ loc[r].receipt \in {"success", "reverted"}
               /\ ~ENABLE_STEALTH_FUNDING \/ loc[r].existingBalance >= STEALTH_FUNDING_WEI)
              => /\ pc[r] = "done"
                 /\ Count(r, {"funding"}) = 0
                 /\ result[r].returned
                 /\ result[r].fundingTxHash = 0

C24_Witness ==
    \E r \in RequestIds :
        /\ Relay(r) /\ pc[r] = "done"
        /\ ENABLE_STEALTH_FUNDING
        /\ loc[r].existingBalance = STEALTH_FUNDING_WEI - 1
        /\ \E i \in Calls(r, {"funding"}) : chainLog[i].out = "sent"
        /\ result[r].fundingTxHash # 0

\* submitPrivateSwap threw on reading a signal the request does not carry:
\* BigInt(publicSignals[6]) of an absent entry (448), or the encoding of
\* fewer than 8 signals as uint256[8] (224-227).
SignalMissing(r) ==
    /\ Len(body[r].publicSignals.v) < HOOK_SIGNALS
    /\ thrown[r].category \in {"TypeError", "EncodingError"}

\* C25: a POST /relay request the validator accepted never fails inside
\* submitPrivateSwap because a public signal it reads or packs is missing.
C25_AcceptedRequestHasEverySignal ==
    \A r \in RequestIds : (Relay(r) /\ Validated(r)) => ~SignalMissing(r)

\* C26: the relayer account sends at most one swap transaction carrying a
\* given nullifier hash, whatever the interleaving of two concurrent
\* POST /relay requests (stated for swaps sent with distinct nonces, which
\* the node accepts side by side).
C26_OneSwapPerNullifier ==
    \A i, j \in 1..Len(submitted) :
        (/\ i # j
         /\ submitted[i].op = "swap" /\ submitted[j].op = "swap"
         /\ submitted[i].nonce # submitted[j].nonce)
        => Nullifier(submitted[i].req) # Nullifier(submitted[j].req)

\* C27: a request whose nullifierHashes read failed sends no swap
\* transaction: every swap follows a nullifier read the chain answered with
\* "not spent" (stated for well-formed requests).
C27_FailedNullifierReadStopsRequest ==
    \A r \in RequestIds :
        (Relay(r) /\ body[r] \in BaseBodies /\ Count(r, {"swap"}) >= 1)
        => /\ loc[r].isNullifierUsed = "unspent"
           /\ \E n \in Calls(r, {"nullifierHashes"}) : chainLog[n].out = "unspent"

\* C28: every funding transfer of a request follows the receipt of its swap,
\* and that receipt has status success: a swap whose receipt is reverted
\* leads to no funding transfer (stated for well-formed requests whose chain
\* reads were all answered).
C28_FundingOnlyAfterSuccessfulSwap ==
    \A r \in RequestIds :
        (Relay(r) /\ Healthy(r))
        => \A f \in Calls(r, {"funding"}) :
               /\ \E w \in Calls(r, {"waitSwap"}) : w < f /\ chainLog[w].out = "success"
               /\ loc[r].receipt = "success"

\* The bodies POST /relay answers with: the validator's 400 with its
\* field-level message, the success body, or one of the five bodies of the
\* route's catch block.
RelayAnswers(r) ==
    \/ response[r].status = 400 /\ response[r].error # "" /\ response[r].code = ""
    \/ response[r].status = 200 /\ result[r].returned
    \/ <<response[r].status, response[r].code>> \in
          {<<400, "INVALID_PROOF">>, <<400, "NULLIFIER_USED">>, <<400, "INVALID_ROOT">>,
           <<503, "RELAYER_UNDERFUNDED">>, <<500, "RELAY_FAILED">>}

\* C29: every chain-client call returning or throwing, every POST /relay
\* request that reached the validator is eventually answered; the answer is
\* the validator's 400, the success body or one body of the catch block; and
\* once a response was sent the request takes no further step and sends no
\* other response.
C29_EveryRequestAnsweredOnce ==
    /\ \A r \in RequestIds :
          (Relay(r) /\ pc[r] = "validate") ~> (pc[r] = "done" /\ response[r].sent = 1)
    /\ [](\A r \in RequestIds :
             /\ response[r].sent \in {0, 1}
             /\ (Relay(r) /\ response[r].sent = 1) => (pc[r] = "done" /\ RelayAnswers(r)))
    /\ [][\A r \in RequestIds :
             response[r].sent = 1 => (response'[r] = response[r] /\ pc'[r] = pc[r])]_vars

C29_Witness ==
    \E r \in RequestIds :
        /\ Relay(r) /\ pc[r] = "done"
        /\ response[r].sent = 1 /\ response[r].status = 200
        /\ loc[r].fundingReceipt = "success"
        /\ Len(chainLog) = 8

\* The amount of the GET /fee/quote request parses as an integer.
AmountParses == query.t = "str" /\ Len(query.v) > 0 /\ ToBigInt(query).ok

\* C30: for every amount that parses as an integer, 0 included, once the
\* gas price was returned GET /fee/quote answers 200 with
\* relayerFee = amount * DEFAULT_FEE_BPS / 10000 (truncated),
\* netAmount = amount - relayerFee and totalCost = gasPrice * 250000 +
\* relayerFee.
C30_QuoteForEveryIntegerAmount ==
    (/\ quotePc = "done"
     /\ AmountParses
     /\ Len(quoteCalls) = 1 /\ quoteCalls[1].ok)
    => LET a == ToBigInt(query).val
           fee == IF a >= 0 THEN (a * DEFAULT_FEE_BPS) \div BPS_DENOMINATOR
                  ELSE 0 - ((0 - a * DEFAULT_FEE_BPS) \div BPS_DENOMINATOR)
       IN /\ quoteResponse.status = 200
          /\ quoteResponse.relayerFee = fee
          /\ quoteResponse.netAmount = a - fee
          /\ quoteResponse.totalCost = quoteCalls[1].gasPrice * ESTIMATED_GAS + fee
====
